---- MODULE Spec2Model ----
(***************************************************************************)
(* A model of mlfinlab/portfolio_optimization/risk_metrics.py: the class   *)
(* RiskMetrics with its four operations calculate_variance,                *)
(* calculate_value_at_risk, calculate_expected_shortfall and               *)
(* calculate_conditional_drawdown_risk.                                    *)
(*                                                                         *)
(* Returns, covariances and weights are integers, a confidence level is    *)
(* the decimal num/den, and a mean is the rational num/den (sum over       *)
(* count) or the not-a-number value NaN.  The position of a quantile is    *)
(* computed as pandas and numpy compute it, in float64: the level is the   *)
(* float64 nearest to num/den, multiplied by 100.0 and divided by 100      *)
(* again, and its product with n - 1 is rounded to float64 before the      *)
(* ceiling is taken.  A DataFrame is a sequence of columns,                *)
(* each column a sequence of cells along the time axis; a cell is a number *)
(* or NaN.                                                                 *)
(***************************************************************************)
EXTENDS Integers, Sequences, FiniteSets

VARIABLES call, pc, covariance, weights, returns, confidence_level, result

vars == <<call, pc, covariance, weights, returns, confidence_level, result>>

-----------------------------------------------------------------------------
(* Bounds of the model.                                                    *)

\* longest return series
MaxLen == 4
\* most columns of a return table
MaxCols == 2
\* most cells (rows times columns) of a return table
MaxCells == 6
\* returns range over -1 .. MaxVal
MaxVal == 1
\* confidence levels are the grid 0/AlphaDen .. AlphaDen/AlphaDen and the default
AlphaDen == 4
\* most assets of a covariance matrix
MaxAssets == 2
\* the multi-asset tables: columns, rows, and returns over -1 .. TableMaxVal
TableCols == 2
TableRows == 3
TableMaxVal == 3

Vals == (0 - 1)..MaxVal
CovVals == {0 - 1, 0, 1}
WeightVals == {0 - 1, 0, 1}

-----------------------------------------------------------------------------
(* Numbers.                                                                *)

\* the default confidence_level=0.05 of calculate_value_at_risk and
\* calculate_expected_shortfall, as the rational 1/20
DefaultConfidenceLevel == [num |-> 1, den |-> 20]

\* a number cell of a DataFrame, and the missing cell
Cell(v) == [nan |-> FALSE, v |-> v]
NaNCell == [nan |-> TRUE, v |-> 0]

\* a float result: the rational num/den, or not-a-number
Rat(n, d) == [nan |-> FALSE, num |-> n, den |-> d]
NaN == [nan |-> TRUE, num |-> 0, den |-> 1]

\* x <= y and x = y for two defined rationals (denominators are positive)
RatLeq(x, y) == x.num * y.den <= y.num * x.den
RatEq(x, y) == x.num * y.den = y.num * x.den
\* two float results are the same result
SameFloat(x, y) == IF x.nan \/ y.nan THEN x.nan /\ y.nan ELSE RatEq(x, y)


MaxOf(S) == CHOOSE m \in S : \A x \in S : x <= m

-----------------------------------------------------------------------------
(* numpy / pandas primitives the four operations are made of.  A table     *)
(* primitive takes its argument through a one-point function, op[d \in {x}], *)
(* so that the argument is computed once, as the library computes on the   *)
(* array it is handed.                                                     *)

\* np.dot of two vectors
RECURSIVE DotUpTo(_, _, _)
DotUpTo(a, b, k) == IF k = 0 THEN 0 ELSE DotUpTo(a, b, k - 1) + a[k] * b[k]
dot_vv(a, b) == DotUpTo(a, b, Len(a))

\* np.dot of a matrix (a sequence of rows) and a vector
dot_mv(m, v) == [i \in 1..Len(m) |-> dot_vv(m[i], v)]

\* the column sorted ascending (insertion sort)
RECURSIVE Insert(_, _)
Insert(s, x) ==
    IF s = <<>> THEN <<x>>
    ELSE IF x <= Head(s) THEN <<x>> \o s
    ELSE <<Head(s)>> \o Insert(Tail(s), x)

RECURSIVE SortUpTo(_, _)
SortUpTo(s, k) == IF k = 0 THEN <<>> ELSE Insert(SortUpTo(s, k - 1), s[k])

\* a quantile taken without sorting the column
unsorted(col) == col

sorted(col) == SortUpTo(col, Len(col))

\* interpolation='lower': the lower of the two bracketing order statistics
lower(col, q) == sorted(col)[((q.num * (Len(col) - 1)) \div q.den) + 1]

\* float64 keeps this many significant binary digits
Float64Digits == 53

\* v shifted right by m binary digits: floor(v / 2^m)
RECURSIVE rshift(_, _)
rshift(v, m) == IF m = 0 THEN v ELSE rshift(v \div 2, m - 1)

\* v shifted left by m binary digits: v * 2^m
RECURSIVE lshift(_, _)
lshift(v, m) == IF m = 0 THEN v ELSE lshift(2 * v, m - 1)

\* 2^i mod d by repeated squaring
RECURSIVE PowMod(_, _)
PowMod(i, d) ==
    IF i = 0 THEN 1 % d
    ELSE LET square[h \in {PowMod(i \div 2, d)}] ==
                 (h * h * (IF i % 2 = 1 THEN 2 ELSE 1)) % d
         IN  square[PowMod(i \div 2, d)]

\* the float64 nearest to a / d, for 0 < a < d: a / d is cut after
\* Float64Digits significant binary digits, the last of weight 2^-scale, and
\* rounded to nearest, ties to even.  rest = (a * 2^scale) mod d is what the
\* cut leaves out, in units of 1 / (d * 2^scale), so the float64 is exactly
\*     a / d + err / (d * 2^scale)
\* low is its significand (the float64 times 2^scale) modulo 256.
float64(a, d) ==
    LET \* the position of the first binary digit 1 of a / d: the least i
        \* with a * 2^i >= d
        first == CHOOSE i \in 1..Float64Digits :
                    rshift(d - 1, i) < a /\ rshift(d - 1, i - 1) >= a
        scale == first + Float64Digits - 1
        rest == (a * PowMod(scale, d)) % d
        \* the binary digit of weight 2^-scale
        last == (2 * ((a * PowMod(scale - 1, d)) % d)) \div d
        up == IF 2 * rest > d \/ (2 * rest = d /\ last = 1) THEN 1 ELSE 0
        \* the last 8 binary digits of a / d before the cut
        digits == (((a * PowMod(scale - 8, d)) % d) * 256) \div d
    IN  [first |-> first, err |-> up * d - rest, low |-> (digits + up) % 256]

\* the level as np.percentile receives and rescales it: DataFrame.quantile
\* hands on q * 100.0 and np.percentile divides by 100, each result rounded
\* to float64.  With S the significand of x = float64(a / d), the product
\* 100 * S has 6 or 7 binary digits too many (7 when 100 * S >= 2^59, that
\* is 25 * S >= 2^57) and is rounded to the nearest multiple of step = 64
\* or 128, ties to the even multiple: it becomes 100 * S - rho.  The
\* quotient by 100 is S - rho / 100, rounded to the nearest whole
\* significand, ties to even: S + move with move in {-1, 0, 1}.
percent_round_trip(a, d) ==
    LET trip[x \in {float64(a, d)}] ==
            LET \* 25 * S - 2^57, in units of 2^52 / d, up to the rounding
                \* of S
                over == 25 * lshift(a, x.first) - 32 * d
                step == IF over > 0 \/ (over = 0 /\ x.err >= 0)
                        THEN 128 ELSE 64
                cut == (100 * x.low) % step
                odd == (100 * x.low) % (2 * step) >= step
                rho == IF 2 * cut < step \/ (2 * cut = step /\ ~odd)
                       THEN cut ELSE cut - step
                size == IF rho < 0 THEN 0 - rho ELSE rho
                away == IF rho > 0 THEN 0 - 1 ELSE 1
                move == IF 2 * size < 100 THEN 0
                        ELSE IF 2 * size > 100 THEN away
                        ELSE IF x.low % 2 = 0 THEN 0 ELSE away
            IN  [first |-> x.first, err |-> x.err + move * d]
    IN  trip[float64(a, d)]

\* np.ceil(k * q) with the product taken in float64, for k = n - 1 >= 0 and
\* q in [0, 1].  With x the float64 that the level has become on its way
\* (float64(q), times 100.0, divided by 100) the exact product is
\*     k * q + k * x.err / (den * 2^scale)
\* and the float64 product is the float64 nearest to it.  When k * q is not
\* a whole number it is at least 1 / den away from one, the rounding does
\* not reach that far, and the ceiling is that of k * q.  When k * q is the
\* whole number N (of `bits` binary digits) the float64 after N is
\* N + 2^(bits - Float64Digits); the product rounds to it or beyond, and the
\* ceiling is N + 1, exactly when it exceeds N by more than half that step
\* (N is the even one of a tie), which in the units of x.err reads
\* k * x.err > den * 2^(first + bits - 2).
float64_ceil(k, q) ==
    IF k = 0 \/ q.num = 0 THEN 0
    ELSE IF q.num = q.den THEN k
    ELSE IF (k * q.num) % q.den # 0 THEN ((k * q.num) \div q.den) + 1
    ELSE LET N == (k * q.num) \div q.den
             x == percent_round_trip(q.num, q.den)
             bits == CHOOSE t \in 1..Float64Digits :
                        rshift(N, t) = 0 /\ rshift(N, t - 1) > 0
         IN  N + (IF x.err > 0
                     /\ rshift((k * x.err - 1) \div q.den, x.first + bits - 2) >= 1
                  THEN 1 ELSE 0)

\* interpolation='higher': the element of the sorted column at the 0-based
\* position np.ceil((n - 1) * q), the product taken in float64 and q being
\* the level after its way through q * 100.0 / 100
higher(col, q) == sorted(col)[float64_ceil(Len(col) - 1, q) + 1]

\* DataFrame.quantile(q, interpolation='higher'): one value per column
quantile(df, q) ==
    LET column[d \in {df}] == [c \in 1..Len(d) |-> higher(d[c], q)]
    IN  column[df]

\* pd.DataFrame(returns) of a bare sequence: a single-column table
DataFrame(values) == << values >>

\* isinstance(returns, pd.DataFrame)
isDataFrame(r) == r.isDataFrame

\* the normalisation at the head of the three return-based operations
normalise(r) == IF ~isDataFrame(r) THEN DataFrame(r.values) ELSE r.columns

\* returns[returns < value_at_risk]: the Series is aligned on the columns,
\* a cell that is not below its column's value becomes NaN
mask_less(df, series) ==
    LET where[d \in {df}, s \in {series}] ==
            [c \in 1..Len(d) |->
                [t \in 1..Len(d[c]) |->
                    IF d[c][t] < s[c] THEN Cell(d[c][t]) ELSE NaNCell]]
    IN  where[df, series]

\* a mask that also keeps the cells equal to the threshold
mask_greater_equal(df, series) ==
    LET where[d \in {df}, s \in {series}] ==
            [c \in 1..Len(d) |->
                [t \in 1..Len(d[c]) |->
                    IF d[c][t] >= s[c] THEN Cell(d[c][t]) ELSE NaNCell]]
    IN  where[df, series]

\* max_drawdown[max_drawdown > threshold]
mask_greater(df, series) ==
    LET where[d \in {df}, s \in {series}] ==
            [c \in 1..Len(d) |->
                [t \in 1..Len(d[c]) |->
                    IF d[c][t] > s[c] THEN Cell(d[c][t]) ELSE NaNCell]]
    IN  where[df, series]

\* sum and count of the cells of a column that are not NaN
RECURSIVE ColSum(_, _)
ColSum(col, k) ==
    IF k = 0 THEN 0
    ELSE ColSum(col, k - 1) + (IF col[k].nan THEN 0 ELSE col[k].v)

RECURSIVE ColCount(_, _)
ColCount(col, k) ==
    IF k = 0 THEN 0
    ELSE ColCount(col, k - 1) + (IF col[k].nan THEN 0 ELSE 1)

RECURSIVE FrameSum(_, _)
FrameSum(df, c) ==
    IF c = 0 THEN 0 ELSE FrameSum(df, c - 1) + ColSum(df[c], Len(df[c]))

RECURSIVE FrameCount(_, _)
FrameCount(df, c) ==
    IF c = 0 THEN 0 ELSE FrameCount(df, c - 1) + ColCount(df[c], Len(df[c]))

\* a mean that turns the empty slice into zero
nanmean_zero(df) ==
    LET mean[d \in {df}] ==
            IF FrameCount(d, Len(d)) = 0 THEN Rat(0, 1)
            ELSE Rat(FrameSum(d, Len(d)), FrameCount(d, Len(d)))
    IN  mean[df]

\* np.nanmean without an axis: the mean of all the cells of the table that
\* are not NaN, whatever their column; NaN when there is none
nanmean(df) ==
    LET mean[d \in {df}] ==
            IF FrameCount(d, Len(d)) = 0 THEN NaN
            ELSE Rat(FrameSum(d, Len(d)), FrameCount(d, Len(d)))
    IN  mean[df]

\* an expanding window that forgets everything but the current row
expanding_last(df) == df

\* DataFrame.expanding().max(): per column, the maximum from the start of
\* the series up to each point, inclusive
expanding_max(df) ==
    LET window[d \in {df}] ==
            [c \in 1..Len(d) |->
                [t \in 1..Len(d[c]) |-> MaxOf({d[c][s] : s \in 1..t})]]
    IN  window[df]

\* elementwise difference of two tables of the same shape
minus(a, b) ==
    LET sub[x \in {a}, y \in {b}] ==
            [c \in 1..Len(x) |-> [t \in 1..Len(x[c]) |-> x[c][t] - y[c][t]]]
    IN  sub[a, b]

-----------------------------------------------------------------------------
(* The four operations of RiskMetrics.                                     *)

\* np.dot(weights, np.dot(covariance, weights)) raises ValueError (shapes
\* not aligned).  The inner product of the N x N covariance and the weights
\* needs N weights.  Of a pd.DataFrame it is a vector of length N; of an
\* np.matrix it is a matrix again, of 1 row and N columns, and the outer
\* product of the weights with a matrix of 1 row needs exactly 1 weight.
raises_ValueError(cov, w) ==
    \/ Len(w) # Len(cov.rows)
    \/ cov.type = "np.matrix" /\ Len(w) # 1

\* np.dot(weights, np.dot(covariance, weights)) when it does not raise: a
\* number for a pd.DataFrame, a matrix of 1 row and 1 column for an
\* np.matrix
calculate_variance(cov, w) ==
    IF cov.type = "np.matrix"
    THEN << <<w[1] * dot_mv(cov.rows, w)[1]>> >>
    ELSE dot_vv(w, dot_mv(cov.rows, w))

\* a table handed on as a DataFrame
AsDataFrame(df) == [isDataFrame |-> TRUE, columns |-> df, values |-> <<>>]

\* returns.quantile(confidence_level, interpolation='higher'), per column
calculate_value_at_risk(r, q) == quantile(normalise(r), q)

\* np.nanmean(returns[returns < value_at_risk])
calculate_expected_shortfall(r, q) ==
    LET df == normalise(r)
        value_at_risk == calculate_value_at_risk(AsDataFrame(df), q)
    IN  nanmean(mask_less(df, value_at_risk))

\* the intermediate tables of calculate_conditional_drawdown_risk
drawdown(df) == minus(expanding_max(df), df)
max_drawdown(df) == expanding_max(drawdown(df))
max_drawdown_at_confidence_level(df, q) == quantile(max_drawdown(df), q)

\* np.nanmean(max_drawdown[max_drawdown > max_drawdown_at_confidence_level])
calculate_conditional_drawdown_risk(r, q) ==
    LET df == normalise(r)
    IN  nanmean(mask_greater(max_drawdown(df),
                             max_drawdown_at_confidence_level(df, q)))

-----------------------------------------------------------------------------
(* The inputs of a call.                                                   *)

Ops == {"calculate_variance", "calculate_value_at_risk",
        "calculate_expected_shortfall", "calculate_conditional_drawdown_risk"}
ReturnOps == Ops \ {"calculate_variance"}

\* the argument a call does not take
NoReturns == [isDataFrame |-> FALSE, columns |-> <<>>, values |-> <<>>]
NoMatrix == <<>>

\* a bare sequence of n >= 1 returns
BareReturns ==
    {[isDataFrame |-> FALSE, columns |-> <<>>, values |-> s] :
        s \in UNION {[1..n -> Vals] : n \in 1..MaxLen}}

\* a DataFrame of n >= 1 rows and c >= 1 columns
Shapes ==
    {sh \in (1..MaxLen) \X (1..MaxCols) : sh[1] * sh[2] <= MaxCells}
FrameReturns ==
    {AsDataFrame(f) :
        f \in UNION {[1..sh[2] -> [1..sh[1] -> Vals]] : sh \in Shapes}}

ReturnInputs == BareReturns \cup FrameReturns

\* confidence levels in [0, 1]
Alphas ==
    {[num |-> a, den |-> AlphaDen] : a \in 0..AlphaDen}
        \cup {DefaultConfidenceLevel}

\* two-decimal confidence levels around 0.28, and 0.56: the float64 nearest
\* to 0.28 and to 0.56 is above the decimal; and the levels 4/6 and 5/6:
\* 5/6 * 100.0 / 100 is the float64 after the one nearest to 5/6
Levels ==
    Alphas \cup {[num |-> a, den |-> 100] : a \in {27, 28, 29, 56}}
        \cup {[num |-> a, den |-> 6] : a \in {4, 5}}

\* the two types of covariance the docstring names
CovarianceTypes == {"pd.DataFrame", "np.matrix"}

\* N x N matrices (any, not only covariance matrices) of either type and
\* weights of any length, N or not; diag(4, 9) with the weights [1, 0] is
\* the documented example
VarianceInputs ==
    UNION {[type : CovarianceTypes, rows : [1..nm[1] -> [1..nm[1] -> CovVals]]]
                \X [1..nm[2] -> WeightVals] :
            nm \in (1..MaxAssets) \X (1..MaxAssets)}
        \cup {<<[type |-> t, rows |-> <<(<<4, 0>>), (<<0, 9>>)>>], <<1, 0>> >> :
                t \in CovarianceTypes}

\* the series made of the 20 values 1..20, in ascending order, in descending
\* order, and every rotation of the two
Fixture20 ==
    {[i \in 1..20 |-> ((i + k) % 20) + 1] : k \in 0..19}
        \cup {[i \in 1..20 |-> 20 - ((i + k) % 20)] : k \in 0..19}
FixtureInputs ==
    {[isDataFrame |-> FALSE, columns |-> <<>>, values |-> s] : s \in Fixture20}
        \cup {AsDataFrame(<<s>>) : s \in Fixture20}

\* the series made of the 26 values 0..25, in ascending order, in descending
\* order, and every rotation of the two
Series26 ==
    {[i \in 1..26 |-> (i + k) % 26] : k \in 0..25}
        \cup {[i \in 1..26 |-> 25 - ((i + k) % 26)] : k \in 0..25}
\* the same with the 7 values 0..6
Series7 ==
    {[i \in 1..7 |-> (i + k) % 7] : k \in 0..6}
        \cup {[i \in 1..7 |-> 6 - ((i + k) % 7)] : k \in 0..6}
SeriesInputs ==
    {[isDataFrame |-> FALSE, columns |-> <<>>, values |-> s] :
        s \in Series26 \cup Series7}
        \cup {AsDataFrame(<<s>>) : s \in Series26 \cup Series7}

\* multi-asset tables: TableCols columns of TableRows rows over a wider range
TableInputs ==
    {AsDataFrame(f) :
        f \in [1..TableCols -> [1..TableRows -> (0 - 1)..TableMaxVal]]}

-----------------------------------------------------------------------------
(* The state machine: one pending call, then its result or the exception   *)
(* it raised.                                                              *)

InitVariance ==
    /\ call = "calculate_variance"
    /\ \E in \in VarianceInputs : covariance = in[1] /\ weights = in[2]
    /\ returns = NoReturns
    /\ confidence_level = DefaultConfidenceLevel

InitReturns(ops, inputs, levels) ==
    /\ call \in ops
    /\ returns \in inputs
    /\ confidence_level \in levels
    /\ covariance = NoMatrix
    /\ weights = NoMatrix

Init ==
    /\ pc = "called"
    /\ result = "none"
    /\ (InitVariance \/ InitReturns(ReturnOps, ReturnInputs, Alphas))

Return(value) ==
    /\ result' = value
    /\ pc' = "returned"
    /\ UNCHANGED <<call, covariance, weights, returns, confidence_level>>

Raise(exception) ==
    /\ result' = exception
    /\ pc' = "raised"
    /\ UNCHANGED <<call, covariance, weights, returns, confidence_level>>

CalculateVariance ==
    /\ pc = "called"
    /\ call = "calculate_variance"
    /\ IF raises_ValueError(covariance, weights)
       THEN Raise("ValueError")
       ELSE Return(calculate_variance(covariance, weights))

CalculateValueAtRisk ==
    /\ pc = "called"
    /\ call = "calculate_value_at_risk"
    /\ Return(calculate_value_at_risk(returns, confidence_level))

CalculateExpectedShortfall ==
    /\ pc = "called"
    /\ call = "calculate_expected_shortfall"
    /\ Return(calculate_expected_shortfall(returns, confidence_level))

CalculateConditionalDrawdownRisk ==
    /\ pc = "called"
    /\ call = "calculate_conditional_drawdown_risk"
    /\ Return(calculate_conditional_drawdown_risk(returns, confidence_level))

Next ==
    \/ CalculateVariance
    \/ CalculateValueAtRisk
    \/ CalculateExpectedShortfall
    \/ CalculateConditionalDrawdownRisk

\* every operation, on the small inputs
Spec == Init /\ [][Next]_vars

\* calculate_variance alone
InitVarianceOnly == pc = "called" /\ result = "none" /\ InitVariance
SpecVariance == InitVarianceOnly /\ [][CalculateVariance]_vars

\* the three operations on returns, on the small inputs
InitReturnsOnly ==
    pc = "called" /\ result = "none" /\ InitReturns(ReturnOps, ReturnInputs, Alphas)
NextReturns ==
    \/ CalculateValueAtRisk
    \/ CalculateExpectedShortfall
    \/ CalculateConditionalDrawdownRisk
SpecReturns == InitReturnsOnly /\ [][NextReturns]_vars

\* the three operations on returns, on the small inputs and on the series
\* made of 0..25, at the two-decimal levels as well
InitLevels ==
    pc = "called" /\ result = "none"
        /\ InitReturns(ReturnOps, ReturnInputs \cup SeriesInputs, Levels)
SpecLevels == InitLevels /\ [][NextReturns]_vars

\* the two quantile-based operations on the series made of 1..20
QuantileOps == {"calculate_value_at_risk", "calculate_expected_shortfall"}
InitFixture ==
    pc = "called" /\ result = "none" /\ InitReturns(QuantileOps, FixtureInputs, Alphas)
NextQuantile ==
    \/ CalculateValueAtRisk
    \/ CalculateExpectedShortfall
SpecFixture == InitFixture /\ [][NextQuantile]_vars

\* the two tail averages on multi-asset tables
TailOps == {"calculate_expected_shortfall",
            "calculate_conditional_drawdown_risk"}
InitTables ==
    pc = "called" /\ result = "none" /\ InitReturns(TailOps, TableInputs, Alphas)
NextTail ==
    \/ CalculateExpectedShortfall
    \/ CalculateConditionalDrawdownRisk
SpecTables == InitTables /\ [][NextTail]_vars

-----------------------------------------------------------------------------
(* What the properties are stated with.  None of this is used by the       *)
(* operations above.                                                       *)

Returned(op) == pc = "returned" /\ call = op

\* the columns of the return input, a bare sequence being one column
Columns == IF returns.isDataFrame THEN returns.columns ELSE <<returns.values>>

\* the confidence level of the call
alpha == confidence_level

\* the 0-based position ceil(alpha * (n - 1)): the least k with
\* k >= alpha * (n - 1)
Position(n) ==
    CHOOSE k \in 0..(n - 1) :
        /\ k * alpha.den >= alpha.num * (n - 1)
        /\ (k - 1) * alpha.den < alpha.num * (n - 1)

\* v is the element at 0-based position k of col sorted ascending: v is in
\* the sample, at most k elements are below v and more than k are at most v
IsOrderStatistic(col, k, v) ==
    /\ \E i \in DOMAIN col : col[i] = v
    /\ Cardinality({i \in DOMAIN col : col[i] < v}) <= k
    /\ Cardinality({i \in DOMAIN col : col[i] <= v}) > k

OrderStatistic(col, k) ==
    CHOOSE v \in {col[i] : i \in DOMAIN col} : IsOrderStatistic(col, k, v)

\* the 'higher' alpha-quantile of a column as the specification defines it:
\* the order statistic at position ceil(alpha * (n - 1))
Threshold(col) == OrderStatistic(col, Position(Len(col)))

MinOf(S) == CHOOSE m \in S : \A x \in S : m <= x
Range(col) == {col[i] : i \in DOMAIN col}

\* the sum of f over a finite set of indices
RECURSIVE SumOver(_, _)
SumOver(f, S) ==
    IF S = {} THEN 0
    ELSE LET x == CHOOSE y \in S : TRUE IN f[x] + SumOver(f, S \ {x})

\* a float result is the mean of f over the set S of indices
IsMeanOver(r, f, S) ==
    IF S = {} THEN r.nan
    ELSE ~r.nan /\ r.num * Cardinality(S) = r.den * SumOver(f, S)

\* the running maximum M[t] = max(D[1..t]) of the drawdown
\* D[s] = max(r[1..s]) - r[s] of a series
M(r) ==
    [t \in DOMAIN r |->
        MaxOf({MaxOf({r[u] : u \in 1..s}) - r[s] : s \in 1..t})]

\* the returns strictly below their column's VaR, the running maxima of the
\* drawdown strictly above their column's threshold, the VaR and the
\* threshold being the ones the operations compute
Below(col, q) == {t \in DOMAIN col : col[t] < q}
Above(col, q) == {t \in DOMAIN col : col[t] > q}
LeftTail(c) ==
    UNION {Below(Columns[c], q[c]) :
            q \in {calculate_value_at_risk(returns, alpha)}}
RightTail(c) ==
    UNION {UNION {Above(m, q[c]) :
                    q \in {max_drawdown_at_confidence_level(normalise(returns),
                                                            alpha)}} :
            m \in {M(Columns[c])}}

\* the running maxima of the drawdown of a series strictly above the
\* 'higher' alpha-quantile of the specification
SpecifiedRightTail(col) ==
    UNION {UNION {Above(m, q) : q \in {Threshold(m)}} : m \in {M(col)}}

\* the return input with its rows reordered by the permutation p
\* (the exchanges of two rows; every permutation is a product of them)
Transpositions(n) ==
    {[t \in 1..n |-> IF t = i THEN j ELSE IF t = j THEN i ELSE t] :
        <<i, j>> \in (1..n) \X (1..n)}
Permute(col, p) == [t \in DOMAIN col |-> col[p[t]]]
Permuted(r, p) ==
    [isDataFrame |-> r.isDataFrame,
     columns |-> [c \in DOMAIN r.columns |-> Permute(r.columns[c], p)],
     values |-> Permute(r.values, p)]

-----------------------------------------------------------------------------
(* C1 *)

\* C1: calculate_value_at_risk returns one value per column, the element at
\* 0-based position ceil(alpha*(n-1)) of the column sorted ascending: always
\* an element of the sample, the minimum for alpha = 0, the maximum for
\* alpha = 1; a bare sequence gives the result of a single-column table.
C1_VaRIsHigherOrderStatistic ==
    Returned("calculate_value_at_risk") =>
        /\ DOMAIN result = DOMAIN Columns
        /\ ~returns.isDataFrame => Len(result) = 1
        /\ \A c \in DOMAIN Columns :
            LET col == Columns[c] IN
            /\ IsOrderStatistic(col, Position(Len(col)), result[c])
            /\ alpha.num = 0 => result[c] = MinOf(Range(col))
            /\ alpha.num = alpha.den => result[c] = MaxOf(Range(col))

-----------------------------------------------------------------------------
(* C2 *)

\* C2: when observations lie strictly below their column's VaR, the expected
\* shortfall is at most the VaR of every column.  Stated in the form most
\* favourable to the claim: every column has such an observation.
C2_ESAtMostEveryColumnVaR ==
    (/\ Returned("calculate_expected_shortfall")
     /\ \A c \in DOMAIN Columns : LeftTail(c) # {})
        => /\ ~result.nan
           /\ \A c \in DOMAIN Columns :
                RatLeq(result,
                       Rat(calculate_value_at_risk(returns, alpha)[c], 1))

-----------------------------------------------------------------------------
(* C3 *)

\* C3: for a single series, calculate_conditional_drawdown_risk returns the
\* mean of the M[t] strictly greater than q, with D[t] = max(r[0..t]) - r[t],
\* M[t] = max(D[0..t]) and q the 'higher' alpha-quantile of M; the mean of
\* no value is NaN.
C3_CDaRIsTailMeanOfRunningMaxDrawdown ==
    (Returned("calculate_conditional_drawdown_risk") /\ Len(Columns) = 1)
        => IsMeanOver(result, M(Columns[1]), SpecifiedRightTail(Columns[1]))

-----------------------------------------------------------------------------
(* C4 *)

\* C4: a defined conditional drawdown risk is at least the threshold of every
\* column and at least 0, and every D[t] and M[t] is non-negative.  Stated in
\* the form most favourable to the claim: every column has a running maximum
\* above its threshold.
C4_CDaRAtLeastEveryColumnThreshold ==
    (/\ Returned("calculate_conditional_drawdown_risk")
     /\ \A c \in DOMAIN Columns : RightTail(c) # {})
        => /\ ~result.nan
           /\ RatLeq(Rat(0, 1), result)
           /\ \A c \in DOMAIN Columns :
                /\ RatLeq(Rat(max_drawdown_at_confidence_level(
                                  normalise(returns), alpha)[c], 1), result)
                /\ \A t \in DOMAIN Columns[c] :
                    /\ drawdown(normalise(returns))[c][t] >= 0
                    /\ max_drawdown(normalise(returns))[c][t] >= 0

-----------------------------------------------------------------------------
(* C5 *)

\* C5: the two tail averages return NaN, and neither zero nor another number,
\* exactly when no observation qualifies (no return strictly below its
\* column's VaR, no running maximum of the drawdown strictly above its
\* column's threshold), and a defined number otherwise.
C5_NaNIffEmptyTail ==
    /\ Returned("calculate_expected_shortfall") =>
        (result.nan <=> \A c \in DOMAIN Columns : LeftTail(c) = {})
    /\ Returned("calculate_conditional_drawdown_risk") =>
        (result.nan <=> \A c \in DOMAIN Columns : RightTail(c) = {})
    /\ (pc = "returned" /\ call \in TailOps) =>
        (result = NaN \/ (~result.nan /\ result.den > 0))

\* C5 witness: an expected shortfall over several distinct returns none of
\* which is below the VaR
C5_Witness ==
    /\ Returned("calculate_expected_shortfall")
    /\ result = NaN
    /\ \E c \in DOMAIN Columns : Cardinality(Range(Columns[c])) > 1

-----------------------------------------------------------------------------
(* C6 *)

\* a series that never decreases, and one that always increases
NonDecreasing(col) == \A t \in 1..(Len(col) - 1) : col[t] <= col[t + 1]
Increasing(col) == \A t \in 1..(Len(col) - 1) : col[t] < col[t + 1]

\* C6: on a monotonically increasing series every drawdown and every running
\* maximum of the drawdown is zero, the threshold is zero, nothing is above
\* it and calculate_conditional_drawdown_risk returns NaN.
C6_MonotoneSeriesGivesNaN ==
    (/\ Returned("calculate_conditional_drawdown_risk")
     /\ \A c \in DOMAIN Columns : NonDecreasing(Columns[c]))
        => LET df == normalise(returns) IN
           /\ \A c \in DOMAIN df : \A t \in DOMAIN df[c] :
                drawdown(df)[c][t] = 0 /\ max_drawdown(df)[c][t] = 0
           /\ \A c \in DOMAIN df :
                max_drawdown_at_confidence_level(df, alpha)[c] = 0
           /\ \A c \in DOMAIN Columns : RightTail(c) = {}
           /\ result = NaN

\* C6 witness: a strictly increasing series of three or more returns
C6_Witness ==
    /\ Returned("calculate_conditional_drawdown_risk")
    /\ Len(Columns) = 1
    /\ Len(Columns[1]) >= 3
    /\ Increasing(Columns[1])
    /\ result = NaN

-----------------------------------------------------------------------------
(* C7 *)

LevelLeq(a, b) == a.num * b.den <= b.num * a.den

\* C7: for fixed data the VaR does not decrease when alpha increases, in
\* every column: the VaR returned is compared with the VaR of the same data
\* at every other level.
C7_VaRMonotoneInAlpha ==
    Returned("calculate_value_at_risk") =>
        \A a2 \in Levels :
            LET other == calculate_value_at_risk(returns, a2) IN
            \A c \in DOMAIN Columns :
                /\ LevelLeq(alpha, a2) => result[c] <= other[c]
                /\ LevelLeq(a2, alpha) => other[c] <= result[c]

\* C7 witness: the level 0.27 on 26 or more values, where the level 0.28
\* gives a strictly higher VaR
C7_Witness ==
    /\ Returned("calculate_value_at_risk")
    /\ alpha = [num |-> 27, den |-> 100]
    /\ \E c \in DOMAIN Columns :
        /\ Len(Columns[c]) >= 26
        /\ result[c]
             < calculate_value_at_risk(returns, [num |-> 28, den |-> 100])[c]

-----------------------------------------------------------------------------
(* C8 *)

Pairs(n) == (1..n) \X (1..n)
IsDiagonal(m) == \A ij \in Pairs(Len(m)) : ij[1] # ij[2] => m[ij[1]][ij[2]] = 0

\* the number a result of calculate_variance holds: the only entry of the
\* matrix of 1 row and 1 column that an np.matrix covariance gives
Number(r) == IF covariance.type = "np.matrix" THEN r[1][1] ELSE r

\* C8: for every N x N matrix and every N weights calculate_variance returns
\* the sum over i, j of weights[i]*covariance[i][j]*weights[j]; for a
\* diagonal matrix this is the sum of weights[i]^2 * d_i, and weights [1,0]
\* with diag(4,9) give 4.  A matrix of 1 row and 1 column that holds the sum
\* counts as the sum.
C8_VarianceIsQuadraticForm ==
    (/\ call = "calculate_variance"
     /\ pc # "called"
     /\ Len(weights) = Len(covariance.rows))
        => /\ pc = "returned"
           /\ LET n == Len(weights)
                  rows == covariance.rows
                  term == [ij \in Pairs(n) |->
                            weights[ij[1]] * rows[ij[1]][ij[2]] * weights[ij[2]]]
                  square == [i \in 1..n |-> weights[i] * weights[i] * rows[i][i]]
              IN  /\ Number(result) = SumOver(term, Pairs(n))
                  /\ IsDiagonal(rows)
                        => Number(result) = SumOver(square, 1..n)
                  /\ (rows = << <<4, 0>>, <<0, 9>> >> /\ weights = <<1, 0>>)
                        => Number(result) = 4

-----------------------------------------------------------------------------
(* C9 *)

IsFixture20(col) == Len(col) = 20 /\ Range(col) = 1..20

\* C9 as written: on the 20 values 1..20 with alpha = 0.05 the VaR is the
\* sorted value at 1-based index 1, the value 1.
C9_FixtureSelectsFirstValue ==
    (/\ Returned("calculate_value_at_risk")
     /\ IsFixture20(Columns[1])
     /\ alpha = DefaultConfidenceLevel)
        => result = <<1>>

\* C9 amended: on the 20 values 1..20 with alpha = 0.05 the VaR is the sorted
\* value at 0-based index 1 = ceil(0.05 * 19), the second smallest value 2.
C9_FixtureSelectsSecondValue ==
    (/\ Returned("calculate_value_at_risk")
     /\ IsFixture20(Columns[1])
     /\ alpha = DefaultConfidenceLevel)
        => result = <<2>>

\* C9 witness: the VaR of the ascending series 1..20 at the default level
C9_Witness ==
    /\ Returned("calculate_value_at_risk")
    /\ ~returns.isDataFrame
    /\ returns.values = [i \in 1..20 |-> i]
    /\ alpha = DefaultConfidenceLevel
    /\ result = <<2>>

-----------------------------------------------------------------------------
(* C10 *)

RowTranspositions == Transpositions(Len(Columns[1]))

\* C10: calculate_value_at_risk and calculate_expected_shortfall return the
\* same result on every permutation of the observations along the time axis.
\* Checked for every exchange of two observations of every input: the inputs
\* of a length are all the series of that length, so a product of exchanges
\* leaves the result unchanged at each step, and every permutation is one.
C10_QuantileOpsIgnoreTimeOrder ==
    /\ Returned("calculate_value_at_risk") =>
        \A p \in RowTranspositions :
            calculate_value_at_risk(Permuted(returns, p), alpha) = result
    /\ Returned("calculate_expected_shortfall") =>
        \A p \in RowTranspositions :
            SameFloat(calculate_expected_shortfall(Permuted(returns, p), alpha),
                      result)

\* C10 witness: the conditional drawdown risk depends on the order: a
\* permutation of the observations changes it
C10_Witness ==
    /\ Returned("calculate_conditional_drawdown_risk")
    /\ \E p \in RowTranspositions :
        ~SameFloat(calculate_conditional_drawdown_risk(Permuted(returns, p),
                                                       alpha),
                   result)

====
